---- MODULE Spec2Model ----
(***************************************************************************)
(* Open-addressing hash table of src/ht.h: the probers (Prober,            *)
(* LinearProber, DoubleHashProber) and HashTable (insert, remove, find,    *)
(* at, operator[], probe, internalFind, resize).                           *)
(*                                                                         *)
(* Indices are 0-based as in the source; a TLA+ sequence is 1-based, so    *)
(* slot loc of table_ is table[loc + 1] and CAPACITIES[mIndex_] is         *)
(* ladder[mIndex + 1].                                                     *)
(***************************************************************************)
EXTENDS Integers, Sequences, FiniteSets, TLC

VARIABLES
    ladder,       \* HashTable::CAPACITIES, the capacity ladder in force
    resizeAlpha,  \* HashTable::resizeAlpha_, as a fraction [num, den]
    table,        \* HashTable::table_, one entry per slot
    mIndex,       \* HashTable::mIndex_
    count,        \* HashTable::count_, active (non-deleted) items
    used,         \* HashTable::used_, non-null slots (deleted included)
    prober,       \* HashTable::prober_ / a stand-alone prober object
    last,         \* the last call made and how it ended
    shadow,       \* per key: the value of its last successful insert not
                  \* followed by a remove or another insert of that key
    rets,         \* what the calls of next() returned since the last init()
    order,        \* the keys inserted so far, in the order of their insertion
    out           \* what the last call wrote to the std::ostream given to it

vars ==
    <<ladder, resizeAlpha, table, mIndex, count, used, prober, last, shadow, rets,
      order, out>>

----------------------------------------------------------------------------
(* Bounds of the model *)

\* how many rungs of CAPACITIES the model keeps (the source has 28)
NumRungs == 2
\* how many tombstoned slots the environment lets one slot array hold
MaxTombs == 1
\* the largest table size m handed to a stand-alone prober
MaxCap == 23
\* how many calls of next() past exhaustion the environment makes
MaxExtra == 2
\* the largest step a DoubleHash prober on a ladder capacity is given
MaxStep == 12
\* the calls of next() looked at include call m \div d for d up to MaxDiv
MaxDiv == 12

----------------------------------------------------------------------------
(* Program constants *)

\* Prober::npos, (HASH_INDEX_T)-1: a value that is no slot index
npos == -1

CAPACITIES ==
    << 11, 23, 47, 97, 197, 397, 797, 1597,
       3203, 6421, 12853, 25717, 51437, 102877,
       205759, 411527, 823117, 1646237, 3292489,
       6584983, 13169977, 26339969, 52679969,
       105359969, 210719881, 421439783,
       842879579, 1685759167 >>

DOUBLE_HASH_MOD_VALUES ==
    << 7, 19, 43, 89, 193, 389, 787, 1583, 3191, 6397,
       12841, 25703, 51431, 102871, 205721, 411503,
       823051, 1646221, 3292463, 6584957, 13169963,
       26339921, 52679927, 105359939, 210719881,
       421439749, 842879563, 1685759113 >>

DOUBLE_HASH_MOD_SIZE == Len(DOUBLE_HASH_MOD_VALUES)

----------------------------------------------------------------------------
(* Keys, values, hashers.  A key carries the results of the two hash       *)
(* functors the table is instantiated with: h is Hash()(key), h2 is        *)
(* Hash2()(key).  KEqual compares the whole key.                           *)

KeyA == [id |-> "A", h |-> 0, h2 |-> 0]
KeyB == [id |-> "B", h |-> 0, h2 |-> 3]
KeyC == [id |-> "C", h |-> 1, h2 |-> 6]
KeyD == [id |-> "D", h |-> 12, h2 |-> 10]

\* the keys the callers of the table use
Keys == {KeyA, KeyB, KeyC}

\* the keys of the four-insert scenario
ScenarioKeys == {KeyA, KeyB, KeyC, KeyD}

AllKeys == Keys \cup ScenarioKeys

Values == {1, 2}

\* the values the callers store under key k
ValuesOf(k) == IF k = KeyA THEN Values ELSE {1}

NoKey == [id |-> "-", h |-> 0, h2 |-> 0]

hash_(key) == key.h

h2_(key) == key.h2

kequal_(a, b) == a = b

Kinds == {"Linear", "DoubleHash"}

\* maxLoadFactor values the table is constructed with; 2/5 is the default 0.4
Alphas == { [num |-> 2, den |-> 5], [num |-> 1, den |-> 12], [num |-> 1, den |-> 50] }

----------------------------------------------------------------------------
(* Probers *)

\* Prober::init
ProberBaseInit(p, start, m, key) ==
    [p EXCEPT !.start = start, !.m = m, !.numProbes = 0]

\* the loop of DoubleHashProber::init: i runs over 0 .. DOUBLE_HASH_MOD_SIZE-1
RECURSIVE PickMod(_, _, _)
PickMod(i, m, mod) ==
    IF i < DOUBLE_HASH_MOD_SIZE /\ DOUBLE_HASH_MOD_VALUES[i + 1] < m
    THEN PickMod(i + 1, m, DOUBLE_HASH_MOD_VALUES[i + 1])
    ELSE mod

\* DoubleHashProber::init with the step taken as h2(key) % mod
DoubleHashInit_NoComplement(p, start, m, key) ==
    LET q   == ProberBaseInit(p, start, m, key)
        mod == PickMod(0, m, DOUBLE_HASH_MOD_VALUES[1])
    IN  [q EXCEPT !.dhstep = h2_(key) % mod]

\* DoubleHashProber::init
DoubleHashInit(p, start, m, key) ==
    LET q   == ProberBaseInit(p, start, m, key)
        mod == PickMod(0, m, DOUBLE_HASH_MOD_VALUES[1])
    IN  [q EXCEPT !.dhstep = mod - (h2_(key) % mod)]

\* prober_.init(...), dispatched on the prober type the table is built with
ProberInit(p, start, m, key) ==
    IF p.kind = "DoubleHash" THEN DoubleHashInit(p, start, m, key)
    ELSE ProberBaseInit(p, start, m, key)

\* LinearProber::next failing one call late (numProbes_ > m_)
LinearNext_OffByOne(p) ==
    IF p.numProbes > p.m
    THEN [loc |-> npos, p |-> p]
    ELSE [loc |-> (p.start + p.numProbes) % p.m,
          p   |-> [p EXCEPT !.numProbes = @ + 1]]

\* LinearProber::next: the returned location and the prober afterwards
LinearNext(p) ==
    IF p.numProbes >= p.m
    THEN [loc |-> npos, p |-> p]
    ELSE [loc |-> (p.start + p.numProbes) % p.m,
          p   |-> [p EXCEPT !.numProbes = @ + 1]]

\* DoubleHashProber::next
DoubleHashNext(p) ==
    IF p.numProbes >= p.m
    THEN [loc |-> npos, p |-> p]
    ELSE [loc |-> (p.start + p.numProbes * p.dhstep) % p.m,
          p   |-> [p EXCEPT !.numProbes = @ + 1]]

\* Prober::next: throws std::logic_error, returns nothing
BaseNext(p) == [err |-> "logic_error", p |-> p]

\* prober_.next()
ProberNext(p) ==
    IF p.kind = "DoubleHash" THEN DoubleHashNext(p) ELSE LinearNext(p)

\* a prober object before its first init(); the table never reads these fields
\* before probe() has called init()
NewProber(kind) ==
    [kind |-> kind, start |-> 0, m |-> 0, numProbes |-> 0, dhstep |-> 0]

----------------------------------------------------------------------------
(* HashTable.  The operations are written over a record s of the members  *)
(* they change: table, mIndex, count, used, prober.  A call that throws    *)
(* returns the members as the throw left them, with the exception in err.  *)

\* an empty bucket of table_
nullptr == <<>>

\* HashItem(p): a bucket holding the pair p, not deleted
HashItem(p) == << [item |-> p, deleted |-> FALSE] >>

\* table_.assign(n, nullptr)
AssignNull(n) == [i \in 1..n |-> nullptr]

\* sizeof(CAPACITIES)/sizeof(HASH_INDEX_T)
capCount == Len(ladder)

\* double(u) / size >= resizeAlpha_, on the fraction resizeAlpha_ stands for: no
\* u / size equals 2/5, 1/12, 1/50 or 1/2 for a size of the ladders used here
\* (none is a multiple of 5, 12, 50 or 2), and u / size = 1 is computed
\* exactly, so rounding decides no comparison
LoadReached(u, size) == u * resizeAlpha.den >= resizeAlpha.num * size

\* the loop of HashTable::probe ending the search at a deleted bucket
RECURSIVE ProbeLoop_StopsAtDeleted(_, _, _, _)
ProbeLoop_StopsAtDeleted(tbl, p, loc, key) ==
    IF loc = npos THEN [loc |-> npos, p |-> p]
    ELSE IF tbl[loc + 1] = nullptr \/ tbl[loc + 1][1].deleted THEN [loc |-> loc, p |-> p]
    ELSE IF kequal_(tbl[loc + 1][1].item.first, key) THEN [loc |-> loc, p |-> p]
    ELSE LET n == ProberNext(p) IN ProbeLoop_StopsAtDeleted(tbl, n.p, n.loc, key)

\* the loop of HashTable::probe without the test for a matching live key
RECURSIVE ProbeLoop_NoKeyMatch(_, _, _, _)
ProbeLoop_NoKeyMatch(tbl, p, loc, key) ==
    IF loc = npos THEN [loc |-> npos, p |-> p]
    ELSE IF tbl[loc + 1] = nullptr THEN [loc |-> loc, p |-> p]
    ELSE LET n == ProberNext(p) IN ProbeLoop_NoKeyMatch(tbl, n.p, n.loc, key)

\* the while loop of HashTable::probe, entered with the location loc just
\* returned by prober_.next()
RECURSIVE ProbeLoop(_, _, _, _)
ProbeLoop(tbl, p, loc, key) ==
    IF loc = npos THEN [loc |-> npos, p |-> p]
    ELSE IF tbl[loc + 1] = nullptr THEN [loc |-> loc, p |-> p]
    ELSE IF ~tbl[loc + 1][1].deleted /\ kequal_(tbl[loc + 1][1].item.first, key)
         THEN [loc |-> loc, p |-> p]
    ELSE LET n == ProberNext(p) IN ProbeLoop(tbl, n.p, n.loc, key)

\* HashTable::probe
probe(s, key) ==
    LET h0 == hash_(key) % ladder[s.mIndex + 1]
        p0 == ProberInit(s.prober, h0, ladder[s.mIndex + 1], key)
        n  == ProberNext(p0)
    IN  ProbeLoop(s.table, n.p, n.loc, key)

RECURSIVE insert(_, _), resize(_), Rehash(_, _, _)

\* HashTable::resize reinserting the deleted items as well
RECURSIVE Rehash_KeepsDeleted(_, _, _)
Rehash_KeepsDeleted(s, oldTab, i) ==
    IF i > Len(oldTab) THEN [s |-> s, err |-> "none"]
    ELSE IF oldTab[i] # nullptr
         THEN LET r == insert(s, oldTab[i][1].item)
              IN  IF r.err # "none" THEN r ELSE Rehash_KeepsDeleted(r.s, oldTab, i + 1)
    ELSE Rehash_KeepsDeleted(s, oldTab, i + 1)

\* HashTable::resize without used_ = 0
resize_KeepsUsed(s) ==
    IF s.mIndex + 1 >= capCount
    THEN [s |-> s, err |-> "CapacityExhausted"]
    ELSE LET oldTab == s.table
             s1 == [s EXCEPT !.mIndex = @ + 1,
                             !.table  = AssignNull(ladder[s.mIndex + 2]),
                             !.count  = 0]
         IN  Rehash(s1, oldTab, 1)

\* the for loop of HashTable::resize over oldTab, from its i-th element on
Rehash(s, oldTab, i) ==
    IF i > Len(oldTab) THEN [s |-> s, err |-> "none"]
    ELSE IF oldTab[i] # nullptr /\ ~oldTab[i][1].deleted
         THEN LET r == insert(s, oldTab[i][1].item)
              IN  IF r.err # "none" THEN r ELSE Rehash(r.s, oldTab, i + 1)
    ELSE Rehash(s, oldTab, i + 1)

\* HashTable::resize
resize(s) ==
    IF s.mIndex + 1 >= capCount
    THEN [s |-> s, err |-> "CapacityExhausted"]
    ELSE LET oldTab == s.table
             s1 == [s EXCEPT !.mIndex = @ + 1,
                             !.table  = AssignNull(ladder[s.mIndex + 2]),
                             !.count  = 0,
                             !.used   = 0]
         IN  Rehash(s1, oldTab, 1)

\* the placement of a new item without ++used_
Place_NoUsed(s, p) ==
    LET pr  == probe(s, p.first)
        loc == pr.loc
        s1  == [s EXCEPT !.prober = pr.p]
    IN  IF loc = npos THEN [s |-> s1, err |-> "TableFull"]
        ELSE IF s1.table[loc + 1] = nullptr
             THEN [s |-> [s1 EXCEPT !.table[loc + 1] = HashItem(p),
                                    !.count = @ + 1],
                   err |-> "none"]
        ELSE [s |-> [s1 EXCEPT !.table[loc + 1][1].item.second = p.second],
              err |-> "none"]

\* the placement counting an overwrite as one more used bucket
Place_OverwriteCountsUsed(s, p) ==
    LET pr  == probe(s, p.first)
        loc == pr.loc
        s1  == [s EXCEPT !.prober = pr.p]
    IN  IF loc = npos THEN [s |-> s1, err |-> "TableFull"]
        ELSE IF s1.table[loc + 1] = nullptr
             THEN [s |-> [s1 EXCEPT !.table[loc + 1] = HashItem(p),
                                    !.count = @ + 1,
                                    !.used  = @ + 1],
                   err |-> "none"]
        ELSE [s |-> [s1 EXCEPT !.table[loc + 1][1].item.second = p.second,
                               !.used = @ + 1],
              err |-> "none"]

\* the placement counting an overwrite as a new item
Place_CountsOverwrite(s, p) ==
    LET pr  == probe(s, p.first)
        loc == pr.loc
        s1  == [s EXCEPT !.prober = pr.p]
    IN  IF loc = npos THEN [s |-> s1, err |-> "TableFull"]
        ELSE IF s1.table[loc + 1] = nullptr
             THEN [s |-> [s1 EXCEPT !.table[loc + 1] = HashItem(p),
                                    !.count = @ + 1,
                                    !.used  = @ + 1],
                   err |-> "none"]
        ELSE [s |-> [s1 EXCEPT !.table[loc + 1][1].item.second = p.second,
                               !.count = @ + 1],
              err |-> "none"]

\* the part of HashTable::insert after the load-factor check
Place(s, p) ==
    LET pr  == probe(s, p.first)
        loc == pr.loc
        s1  == [s EXCEPT !.prober = pr.p]
    IN  IF loc = npos THEN [s |-> s1, err |-> "TableFull"]
        ELSE IF s1.table[loc + 1] = nullptr
             THEN [s |-> [s1 EXCEPT !.table[loc + 1] = HashItem(p),
                                    !.count = @ + 1,
                                    !.used  = @ + 1],
                   err |-> "none"]
        ELSE [s |-> [s1 EXCEPT !.table[loc + 1][1].item.second = p.second],
              err |-> "none"]

\* HashTable::insert without the load check: it never calls resize()
insert_NoResize(s, p) == Place(s, p)

\* HashTable::insert checking the load before the insert (used_, not used_ + 1)
insert_CountBefore(s, p) ==
    IF LoadReached(s.used, Len(s.table))
    THEN LET r == resize(s)
         IN  IF r.err # "none" THEN r ELSE Place(r.s, p)
    ELSE Place(s, p)

\* HashTable::insert
insert(s, p) ==
    IF LoadReached(s.used + 1, Len(s.table))
    THEN LET r == resize(s)
         IN  IF r.err # "none" THEN r ELSE Place(r.s, p)
    ELSE Place(s, p)

\* HashTable::internalFind: the bucket found (nullptr when there is none) and
\* the prober afterwards
internalFind(s, key) ==
    LET pr == probe(s, key)
    IN  IF pr.loc = npos \/ s.table[pr.loc + 1] = nullptr
        THEN [loc |-> npos, p |-> pr.p]
        ELSE [loc |-> pr.loc, p |-> pr.p]

\* HashTable::remove emptying the bucket instead of marking it deleted
remove_FreesSlot(s, key) ==
    LET f == internalFind(s, key)
    IN  IF f.loc # npos
        THEN [s EXCEPT !.prober = f.p,
                       !.table[f.loc + 1] = nullptr,
                       !.count = @ - 1,
                       !.used = @ - 1]
        ELSE [s EXCEPT !.prober = f.p]

\* HashTable::remove with --used_ as well
remove_DecrementsUsed(s, key) ==
    LET f == internalFind(s, key)
    IN  IF f.loc # npos
        THEN [s EXCEPT !.prober = f.p,
                       !.table[f.loc + 1][1].deleted = TRUE,
                       !.count = @ - 1,
                       !.used = @ - 1]
        ELSE [s EXCEPT !.prober = f.p]

\* HashTable::remove without --count_
remove_KeepsCount(s, key) ==
    LET f == internalFind(s, key)
    IN  IF f.loc # npos
        THEN [s EXCEPT !.prober = f.p,
                       !.table[f.loc + 1][1].deleted = TRUE]
        ELSE [s EXCEPT !.prober = f.p]

\* HashTable::remove
remove(s, key) ==
    LET f == internalFind(s, key)
    IN  IF f.loc # npos
        THEN [s EXCEPT !.prober = f.p,
                       !.table[f.loc + 1][1].deleted = TRUE,
                       !.count = @ - 1]
        ELSE [s EXCEPT !.prober = f.p]

\* HashTable::find: the pair found, as a sequence that is empty for nullptr
find(s, key) ==
    LET pr == probe(s, key)
    IN  IF pr.loc = npos \/ s.table[pr.loc + 1] = nullptr
        THEN [item |-> <<>>, p |-> pr.p]
        ELSE [item |-> << s.table[pr.loc + 1][1].item >>, p |-> pr.p]

\* HashTable::at returning a default value instead of throwing
at_NoThrow(s, key) ==
    LET f == internalFind(s, key)
    IN  IF f.loc = npos
        THEN [err |-> "none", value |-> 0, p |-> f.p]
        ELSE [err |-> "none", value |-> s.table[f.loc + 1][1].item.second, p |-> f.p]

\* HashTable::at: the value referred to, or the out_of_range exception
at(s, key) ==
    LET f == internalFind(s, key)
    IN  IF f.loc = npos
        THEN [err |-> "KeyNotFound", value |-> 0, p |-> f.p]
        ELSE [err |-> "none", value |-> s.table[f.loc + 1][1].item.second, p |-> f.p]

\* HashTable::operator[]
index(s, key) == at(s, key)

\* the for loop of HashTable::reportAll from bucket i on: one line per bucket
\* that is not nullptr, with the bucket index, item.first and item.second
RECURSIVE ReportFrom(_, _)
ReportFrom(tbl, i) ==
    IF i >= Len(tbl) THEN <<>>
    ELSE IF tbl[i + 1] # nullptr
         THEN << [bucket |-> i, first |-> tbl[i + 1][1].item.first,
                  second |-> tbl[i + 1][1].item.second] >> \o ReportFrom(tbl, i + 1)
    ELSE ReportFrom(tbl, i + 1)

\* HashTable::reportAll: the lines written to out
reportAll(s) == ReportFrom(s.table, 0)

\* HashTable::size
size(s) == s.count

\* HashTable::empty
empty(s) == s.count = 0

----------------------------------------------------------------------------
(* The state machine *)

\* the members of the table object in the current state
State ==
    [table |-> table, mIndex |-> mIndex, count |-> count, used |-> used,
     prober |-> prober]

\* the members of the table object in the next state
StateNext ==
    [table |-> table', mIndex |-> mIndex', count |-> count', used |-> used',
     prober |-> prober']

\* op, key, arg: the call and its arguments; outcome, ret: how it ended and
\* what it returned; grew: resize() moved mIndex_; mid: count_ when the
\* resize() called by insert returned (-1: it was not called or threw);
\* prevArg: the value of the preceding call when that was a successful
\* insert of the same key (0: it was not); afterRemove: the call is an insert
\* that follows the remove of a key from the start slot of the inserted key;
\* dropped: the deleted buckets of the slot array that the resize() called by
\* insert replaced (0: it was not called or threw)
NoCall ==
    [op |-> "none", key |-> NoKey, arg |-> 0, ret |-> 0, outcome |-> "none",
     grew |-> FALSE, mid |-> -1, prevArg |-> 0, afterRemove |-> FALSE,
     dropped |-> 0]

\* number of buckets of tbl that hold a deleted item
Tombs(tbl) == Cardinality({i \in 1..Len(tbl) : tbl[i] # nullptr /\ tbl[i][1].deleted})

\* HashTable::HashTable, for a load factor alpha and a prober type kind
Construct(caps, alpha, kind) ==
    /\ ladder = caps
    /\ resizeAlpha = alpha
    /\ prober = NewProber(kind)
    /\ mIndex = 0
    /\ count = 0
    /\ used = 0
    /\ table = AssignNull(caps[1])
    /\ last = NoCall
    /\ shadow = [k \in AllKeys |-> 0]
    /\ rets = <<>>
    /\ order = <<>>
    /\ out = <<>>

Init ==
    \E alpha \in Alphas, kind \in Kinds :
        Construct(SubSeq(CAPACITIES, 1, NumRungs), alpha, kind)

\* the table members after a call that left them as the record s
Becomes(s) ==
    /\ table' = s.table
    /\ mIndex' = s.mIndex
    /\ count' = s.count
    /\ used' = s.used
    /\ prober' = s.prober

\* the preceding call removed a live key other than k from the slot the probe
\* sequence of k starts at
CollidesWithRemoved(k) ==
    /\ last.op = "remove"
    /\ last.outcome = "removed"
    /\ last.key # k
    /\ LET b == table[(hash_(k) % Len(table)) + 1]
       IN  b # nullptr /\ b[1].deleted /\ b[1].item.first = last.key

\* a call of insert(std::make_pair(k, v))
Insert(k, v) ==
    LET r    == insert(State, [first |-> k, second |-> v])
        grow == LoadReached(used + 1, Len(table))
        rs   == resize(State)
    IN  /\ Becomes(r.s)
        /\ last' = [op |-> "insert", key |-> k, arg |-> v, ret |-> 0,
                    outcome |-> IF r.err = "none" THEN "ok" ELSE r.err,
                    grew |-> r.s.mIndex > mIndex,
                    mid |-> IF grow /\ rs.err = "none" THEN rs.s.count ELSE -1,
                    prevArg |-> IF last.op = "insert" /\ last.key = k
                                   /\ last.outcome = "ok"
                                THEN last.arg ELSE 0,
                    afterRemove |-> CollidesWithRemoved(k),
                    dropped |-> IF grow /\ rs.err = "none" THEN Tombs(table) ELSE 0]
        /\ shadow' = [shadow EXCEPT ![k] = IF r.err = "none" THEN v ELSE 0]
        /\ out' = <<>>
        /\ UNCHANGED <<ladder, resizeAlpha, rets>>

\* a call of remove(k)
RemoveCall(k) ==
    LET f == find(State, k).item
    IN  /\ Becomes(remove(State, k))
        /\ last' = [NoCall EXCEPT !.op = "remove", !.key = k,
                                  !.outcome = IF f = <<>> THEN "absent" ELSE "removed"]
        /\ shadow' = [shadow EXCEPT ![k] = 0]
        /\ out' = <<>>
        /\ UNCHANGED <<ladder, resizeAlpha, rets, order>>

\* a call of remove(k) by callers that leave at most MaxTombs deleted slots in
\* one slot array
Remove(k) ==
    /\ find(State, k).item = <<>> \/ Tombs(table) < MaxTombs
    /\ RemoveCall(k)

\* a call of find(k)
Find(k) ==
    LET f == find(State, k)
    IN  /\ prober' = f.p
        /\ last' = [NoCall EXCEPT !.op = "find", !.key = k,
                                  !.outcome = IF f.item = <<>> THEN "absent" ELSE "found",
                                  !.ret = IF f.item = <<>> THEN 0 ELSE f.item[1].second]
        /\ out' = <<>>
        /\ UNCHANGED <<ladder, resizeAlpha, table, mIndex, count, used, shadow, rets, order>>

\* a call of at(k)
At(k) ==
    LET a == at(State, k)
    IN  /\ prober' = a.p
        /\ last' = [NoCall EXCEPT !.op = "at", !.key = k,
                                  !.outcome = IF a.err = "none" THEN "ok" ELSE a.err,
                                  !.ret = a.value]
        /\ out' = <<>>
        /\ UNCHANGED <<ladder, resizeAlpha, table, mIndex, count, used, shadow, rets, order>>

\* a call of operator[](k)
Index(k) ==
    LET a == index(State, k)
    IN  /\ prober' = a.p
        /\ last' = [NoCall EXCEPT !.op = "index", !.key = k,
                                  !.outcome = IF a.err = "none" THEN "ok" ELSE a.err,
                                  !.ret = a.value]
        /\ out' = <<>>
        /\ UNCHANGED <<ladder, resizeAlpha, table, mIndex, count, used, shadow, rets, order>>

\* a call of reportAll(out); it is const and does not probe
ReportAll ==
    /\ out' = reportAll(State)
    /\ last' = [NoCall EXCEPT !.op = "reportAll"]
    /\ UNCHANGED <<ladder, resizeAlpha, table, mIndex, count, used, prober, shadow,
                   rets, order>>

Next ==
    \/ \E k \in Keys : \E v \in ValuesOf(k) : Insert(k, v) /\ UNCHANGED order
    \/ \E k \in Keys : Remove(k)
    \/ \E k \in Keys : Find(k)
    \/ \E k \in Keys : At(k)
    \/ \E k \in Keys : Index(k)
    \/ ReportAll

\* the table with the first NumRungs rungs of the ladder
Spec == Init /\ [][Next]_vars

\* the same table with one rung more
InitDeep ==
    \E alpha \in Alphas, kind \in Kinds :
        Construct(SubSeq(CAPACITIES, 1, NumRungs + 1), alpha, kind)

SpecDeep == InitDeep /\ [][Next]_vars

----------------------------------------------------------------------------
(* The table filled to its load limit: maxLoadFactor 1, any number of      *)
(* deleted slots.  The callers insert FullKeys and remove one key, so that *)
(* the deleted slots of a slot array all hold the same item.               *)

FullAlpha == [num |-> 1, den |-> 1]

FullKeys == {KeyA, KeyB}

InitFull ==
    \E kind \in Kinds : Construct(SubSeq(CAPACITIES, 1, NumRungs), FullAlpha, kind)

NextFull ==
    \/ \E k \in FullKeys : Insert(k, 1) /\ UNCHANGED order
    \/ RemoveCall(KeyA)

SpecFull == InitFull /\ [][NextFull]_vars

----------------------------------------------------------------------------
(* The four-insert scenario: the ladder [7, 17], maxLoadFactor 1/2, the     *)
(* Linear prober; distinct keys are inserted in any order and looked up.   *)

ScenarioLadder == <<7, 17>>

ScenarioAlpha == [num |-> 1, den |-> 2]

InitScenario == Construct(ScenarioLadder, ScenarioAlpha, "Linear")

Inserted == {order[i] : i \in 1..Len(order)}

NextScenario ==
    \/ \E k \in ScenarioKeys \ Inserted, v \in Values :
          Insert(k, v) /\ order' = Append(order, k)
    \/ \E k \in ScenarioKeys : Find(k)

SpecScenario == InitScenario /\ [][NextScenario]_vars

----------------------------------------------------------------------------
(* A prober object used on its own: init, then calls of next *)

\* the prober types of the source: the base Prober and its two specializations
ProberKinds == Kinds \cup {"Base"}

InitProber ==
    /\ \E kind \in ProberKinds : prober = NewProber(kind)
    /\ ladder = <<>>
    /\ resizeAlpha = [num |-> 2, den |-> 5]
    /\ mIndex = 0
    /\ count = 0
    /\ used = 0
    /\ table = <<>>
    /\ last = NoCall
    /\ shadow = [k \in AllKeys |-> 0]
    /\ rets = <<>>
    /\ order = <<>>
    /\ out = <<>>

\* a call of init(start, m, key) on a new prober object; init() overwrites
\* every member next() reads, so a second init() leads to no other state
CallInit(start, m, key) ==
    /\ last.op = "none"
    /\ prober' = ProberInit(prober, start, m, key)
    /\ rets' = <<>>
    /\ last' = [NoCall EXCEPT !.op = "init", !.key = key]
    /\ out' = <<>>
    /\ UNCHANGED <<ladder, resizeAlpha, table, mIndex, count, used, shadow, order>>

\* a call of next() on a prober that init() has set up: outcome is "ok" when
\* the call returned (a slot or npos) and the exception when it threw
CallNext ==
    /\ last.op # "none"
    /\ Len(rets) < prober.m + MaxExtra
    /\ IF prober.kind = "Base"
       THEN /\ prober' = BaseNext(prober).p
            /\ rets' = rets
            /\ last' = [last EXCEPT !.op = "next", !.outcome = BaseNext(prober).err]
       ELSE LET n == ProberNext(prober)
            IN  /\ prober' = n.p
                /\ rets' = Append(rets, n.loc)
                /\ last' = [last EXCEPT !.op = "next", !.outcome = "ok"]
    /\ out' = <<>>
    /\ UNCHANGED <<ladder, resizeAlpha, table, mIndex, count, used, shadow, order>>

NextProber ==
    \/ \E m \in 1..MaxCap : \E start \in 0..m, key \in Keys :
          CallInit(start, m, key)
    \/ CallNext

SpecProber == InitProber /\ [][NextProber]_vars

----------------------------------------------------------------------------
(* Properties *)

\* key k is held by a bucket of tbl that is not deleted
IsLive(tbl, k) ==
    \E i \in 1..Len(tbl) :
        tbl[i] # nullptr /\ ~tbl[i][1].deleted /\ tbl[i][1].item.first = k

\* key k is held by a deleted bucket of tbl and by no live one
IsTombstoned(tbl, k) ==
    /\ ~IsLive(tbl, k)
    /\ \E i \in 1..Len(tbl) :
          tbl[i] # nullptr /\ tbl[i][1].deleted /\ tbl[i][1].item.first = k

\* what find returns for a key stored with value v
Found(k, v) == << [first |-> k, second |-> v] >>

\* C1: round trip.  After insert(k, v) returned, and with no later remove(k)
\* and no later insert of k, find(k) returns the pair (k, v), whatever other
\* calls were made since.
C1_RoundTrip ==
    \A k \in AllKeys : shadow[k] # 0 => find(State, k).item = Found(k, shadow[k])

\* C2: deletion visibility.  Every call of remove(k) leaves find(k) absent;
\* size() is one less than before when k was live and unchanged when it was
\* not.
C2_DeletionVisible ==
    [][ last'.op = "remove" =>
          /\ find(StateNext, last'.key).item = <<>>
          /\ IsLive(table, last'.key) => size(StateNext) = size(State) - 1
          /\ ~IsLive(table, last'.key) => size(StateNext) = size(State)
      ]_vars

\* a remove of a live key has just returned, other keys are still live
C2_Witness ==
    /\ last.op = "remove"
    /\ last.outcome = "removed"
    /\ IsTombstoned(table, last.key)
    /\ count >= 1

\* C3 as stated: insert(k, v1) immediately followed by insert(k, v2) leaves
\* size() as it was after the first insert and makes find(k) return v2.
C3_Overwrite ==
    [][ ( /\ last.op = "insert" /\ last.outcome = "ok"
          /\ last'.op = "insert" /\ last'.key = last.key ) =>
          /\ size(StateNext) = size(State)
          /\ find(StateNext, last'.key).item = Found(last'.key, last'.arg)
      ]_vars

\* C3, amended: insert(k, v1) immediately followed by an insert(k, v2) that
\* returns (does not fail with CapacityExhausted) leaves size() as it was
\* after the first insert and makes find(k) return v2, also when the second
\* insert grows the table.
C3_OverwriteReturned ==
    [][ ( /\ last.op = "insert" /\ last.outcome = "ok"
          /\ last'.op = "insert" /\ last'.key = last.key
          /\ last'.outcome = "ok" ) =>
          /\ size(StateNext) = size(State)
          /\ find(StateNext, last'.key).item = Found(last'.key, last'.arg)
      ]_vars

\* the second of two inserts of one key, with another value, has grown the
\* table and returned
C3_Witness ==
    /\ last.op = "insert"
    /\ last.outcome = "ok"
    /\ last.prevArg # 0
    /\ last.prevArg # last.arg
    /\ last.grew

\* C4: load factor bound.  After every insert that returns, usedCount /
\* capacity < maxLoadFactor, with the capacity the call left.
C4_LoadBound ==
    (last.op = "insert" /\ last.outcome = "ok") =>
        used * resizeAlpha.den < resizeAlpha.num * Len(table)

\* C5: growth correctness.  When an insert grows the table, every key live
\* before is found afterwards with the value it had (the inserted key gets
\* its new value), and count_ when the rehash has returned is count_ before
\* the growth.
C5_GrowthKeepsEntries ==
    [][ (last'.op = "insert" /\ last'.grew) =>
          /\ \A k \in AllKeys :
                (IsLive(table, k) /\ k # last'.key) =>
                    find(StateNext, k).item = find(State, k).item
          /\ IsLive(table, last'.key) => IsLive(table', last'.key)
          /\ last'.mid # -1 => last'.mid = count
      ]_vars

\* C6: an insert that fails with CapacityExhausted leaves table_, count_,
\* used_ and mIndex_ as they were before the call, also when the growth
\* request comes from a reinsert during a rehash.
C6_FailedInsertNoChange ==
    [][ (last'.op = "insert" /\ last'.outcome = "CapacityExhausted") =>
          UNCHANGED <<table, count, used, mIndex>>
      ]_vars

\* C7: at(k) and operator[](k) return the value find(k) returns when k is
\* live and signal KeyNotFound when k is absent or tombstoned; a KeyNotFound
\* call leaves table_, count_, used_ and mIndex_ unchanged.
C7_AtMatchesFind ==
    [][ last'.op \in {"at", "index"} =>
          /\ IsLive(table, last'.key) =>
                /\ last'.outcome = "ok"
                /\ find(State, last'.key).item = Found(last'.key, last'.ret)
          /\ ~IsLive(table, last'.key) => last'.outcome = "KeyNotFound"
          /\ last'.outcome = "KeyNotFound" =>
                UNCHANGED <<table, count, used, mIndex>>
      ]_vars

\* operator[] has just signalled KeyNotFound for a tombstoned key while
\* another key is live
C7_Witness ==
    /\ last.op = "index"
    /\ last.outcome = "KeyNotFound"
    /\ IsTombstoned(table, last.key)
    /\ count >= 1

\* the bucket of tbl at slot loc holds key k, not deleted
LiveAt(tbl, loc, k) ==
    /\ tbl[loc + 1] # nullptr
    /\ ~tbl[loc + 1][1].deleted
    /\ tbl[loc + 1][1].item.first = k

C9_LinearSequence ==
    prober.kind = "Linear" =>
        /\ \A i \in 1..Len(rets) :
              /\ i <= prober.m => rets[i] = (prober.start + (i - 1)) % prober.m
              /\ i = prober.m + 1 => rets[i] = npos
        /\ Len(rets) >= prober.m =>
              \A slot \in 0..(prober.m - 1) :
                  Cardinality({i \in 1..prober.m : rets[i] = slot}) = 1

\* a Linear prober started off slot 0 has made m+1 calls of next
C9_Witness ==
    /\ prober.kind = "Linear"
    /\ prober.m > 1
    /\ prober.start > 0
    /\ Len(rets) = prober.m + 1

\* the entries of the modulus table
ModValues == {DOUBLE_HASH_MOD_VALUES[i] : i \in 1..DOUBLE_HASH_MOD_SIZE}

\* what C10 says of a DoubleHash prober set up by init(start, cap, key)
DoubleHashAsClaimed(p, key, r) ==
    \E mod \in ModValues :
        /\ mod < p.m
        /\ \A e \in ModValues : e < p.m => e <= mod
        /\ p.dhstep = mod - (h2_(key) % mod)
        /\ 1 <= p.dhstep /\ p.dhstep <= mod
        /\ p.dhstep % p.m # 0
        /\ \A i \in 1..Len(r) :
              i <= p.m => r[i] = (p.start + (i - 1) * p.dhstep) % p.m
        /\ \A i \in 1..(Len(r) - 1) : (i + 1 <= p.m) => r[i] # r[i + 1]

\* C10 as stated: for every capacity and key, init picks the largest entry of
\* the modulus table strictly below the capacity, step = m - (h2(key) mod m),
\* 1 <= step <= m, step mod capacity # 0, consecutive probes differ, and the
\* i-th call of next returns (start + i * step) mod capacity.
C10_DoubleHashAnyCapacity ==
    (prober.kind = "DoubleHash" /\ last.op # "none") =>
        DoubleHashAsClaimed(prober, last.key, rets)

\* C10, amended: the same for every capacity above 7, the smallest entry of
\* the modulus table (every capacity of the table's ladder is).
C10_DoubleHashAbove7 ==
    (prober.kind = "DoubleHash" /\ last.op # "none" /\ prober.m > DOUBLE_HASH_MOD_VALUES[1]) =>
        DoubleHashAsClaimed(prober, last.key, rets)

\* a DoubleHash prober over more than 19 slots, the second modulus, has made
\* m calls of next
C10_Witness ==
    /\ prober.kind = "DoubleHash"
    /\ prober.m > DOUBLE_HASH_MOD_VALUES[2]
    /\ prober.dhstep > 1
    /\ Len(rets) = prober.m

\* C11: ProberMisuse.  A call of next on the base Prober ends in an error,
\* and so does a call of next on a Linear or DoubleHash prober made after a
\* call that returned npos.
C11_ProberMisuse ==
    /\ (last.op = "next" /\ prober.kind = "Base") => last.outcome = "logic_error"
    /\ ( /\ last.op = "next" /\ prober.kind \in Kinds
         /\ Len(rets) >= 2 /\ rets[Len(rets) - 1] = npos ) =>
            last.outcome # "ok"

\* the slots of tbl that hold a live (not deleted) item
LiveSlots(tbl) == {i \in 0..(Len(tbl) - 1) : tbl[i + 1] # nullptr /\ ~tbl[i + 1][1].deleted}

\* C12: reportAll writes one (slot, key, value) line per live slot and no
\* other line, in ascending slot order; tombstoned and empty slots are not
\* reported.
C12_ReportLive ==
    last.op = "reportAll" =>
        /\ {out[j].bucket : j \in 1..Len(out)} = LiveSlots(table)
        /\ \A j \in 1..Len(out) :
              /\ out[j].first = table[out[j].bucket + 1][1].item.first
              /\ out[j].second = table[out[j].bucket + 1][1].item.second
        /\ \A j \in 1..(Len(out) - 1) : out[j].bucket < out[j + 1].bucket

\* the slots of tbl that hold an item, deleted or not
OccupiedSlots(tbl) == {i \in 0..(Len(tbl) - 1) : tbl[i + 1] # nullptr}

\* C13: counter invariant.  count_ is the number of live slots, used_ the
\* number of occupied slots (deleted or not), table_.size() is
\* CAPACITIES[mIndex_], and count_ <= used_ <= table_.size(); size() is the
\* number of live keys and empty() holds exactly when no key is live.
C13_Counters ==
    /\ count = Cardinality(LiveSlots(table))
    /\ used = Cardinality(OccupiedSlots(table))
    /\ Len(table) = ladder[mIndex + 1]
    /\ count <= used
    /\ used <= Len(table)
    /\ size(State) = Cardinality({k \in AllKeys : IsLive(table, k)})
    /\ empty(State) <=> ~(\E k \in AllKeys : IsLive(table, k))

\* after a growth the table holds live items and a tombstone
C13_Witness ==
    /\ mIndex >= 1
    /\ count >= 2
    /\ used > count

\* C14: key uniqueness.  No two live slots hold equal keys, in every state
\* reached by insert and remove calls, growth included.
C14_UniqueKeys ==
    \A i, j \in LiveSlots(table) :
        kequal_(table[i + 1][1].item.first, table[j + 1][1].item.first) => i = j

\* a key removed and inserted again: its tombstone and its live slot are both
\* in the table, next to another live key
C14_Witness ==
    /\ count >= 2
    /\ \E i \in OccupiedSlots(table) \ LiveSlots(table) :
          \E j \in LiveSlots(table) :
              table[i + 1][1].item.first = table[j + 1][1].item.first

\* what the first n calls of next() on the prober p return
RECURSIVE NextLocs(_, _)
NextLocs(p, n) ==
    IF n = 0 THEN <<>>
    ELSE LET r == ProberNext(p) IN << r.loc >> \o NextLocs(r.p, n - 1)

\* the probe sequence of key in a table of cap slots: the prober is set up as
\* HashTable::probe does and next() is called cap times
ProbeSeq(kind, key, cap) ==
    NextLocs(ProberInit(NewProber(kind), hash_(key) % cap, cap, key), cap)

\* slot S is the i-th slot of the probe sequence seq and every slot of seq
\* before it is a non-empty slot of tbl
ReachedAt(tbl, seq, S, i) ==
    /\ seq[i] = S
    /\ \A j \in 1..(i - 1) : seq[j] # npos /\ tbl[seq[j] + 1] # nullptr

\* C15: probe-chain reachability.  For every occupied slot S (live or
\* deleted) holding key k, the probe sequence of k returns S within
\* table_.size() calls of next, and every slot it returns before S is
\* non-empty.
C15_ChainReachable ==
    \A S \in OccupiedSlots(table) :
        LET seq == ProbeSeq(prober.kind, table[S + 1][1].item.first, Len(table))
        IN  \E i \in 1..Len(table) : ReachedAt(table, seq, S, i)

\* a live slot is reached by its key's probe sequence at the third call of
\* next or later, past a deleted slot
C15_Witness ==
    \E S \in LiveSlots(table) :
        LET seq == ProbeSeq(prober.kind, table[S + 1][1].item.first, Len(table))
        IN  \E i \in 3..Len(table) :
              /\ ReachedAt(table, seq, S, i)
              /\ \E j \in 1..(i - 1) : table[seq[j] + 1][1].deleted

\* what C16 says of a step: a remove leaves every other live key found with
\* its value; an insert (of the kind the flag returned selects) that follows
\* the remove of a key from the start slot of the inserted key leaves the
\* removed key absent and the inserted key found with the inserted value
TombstoneTraversal(returned) ==
    /\ last'.op = "remove" =>
          \A k \in AllKeys \ {last'.key} :
              IsLive(table, k) =>
                  /\ find(State, k).item # <<>>
                  /\ find(StateNext, k).item = find(State, k).item
    /\ ( /\ last'.op = "insert"
         /\ CollidesWithRemoved(last'.key)
         /\ returned => last'.outcome = "ok" ) =>
            /\ find(StateNext, last.key).item = <<>>
            /\ find(StateNext, last'.key).item = Found(last'.key, last'.arg)

\* C16 as stated: remove(B) never makes another live key unfindable, and
\* after remove(B) followed by insert(D, v), for a key D whose starting index
\* is B's slot, find(B) returns absent and find(D) returns v.
C16_TombstoneTraversal == [][TombstoneTraversal(FALSE)]_vars

\* C16, amended: the same, for an insert(D, v) that returns (does not fail
\* with CapacityExhausted).
C16_TombstoneTraversalReturned == [][TombstoneTraversal(TRUE)]_vars

\* insert(D, v) has returned after the remove of a key from D's start slot,
\* with another key live
C16_Witness ==
    /\ last.op = "insert"
    /\ last.outcome = "ok"
    /\ last.afterRemove
    /\ count >= 2

\* On the prime capacities of the first rungs no insert, and no reinsert
\* made by a growth, ends in "HashTable full": probe always finds an empty
\* bucket or the live bucket of the key before the prober is exhausted.
\* (C17 says it of every capacity: see C17_ProbeOutlastsLoad.)
C17_NeverFull == last.op = "insert" => last.outcome # "TableFull"

\* with maxLoadFactor 1 an insert has returned leaving one empty bucket, the
\* others holding deleted items and live ones
C17_Witness ==
    /\ resizeAlpha = FullAlpha
    /\ last.op = "insert"
    /\ last.outcome = "ok"
    /\ used = Len(table) - 1
    /\ count = 2

\* C18: frame of remove.  remove(k) leaves used_, mIndex_, the set of
\* non-empty slots and the item of every slot unchanged (so it never grows
\* the table); when k is live it sets the deleted flag of the one live slot
\* holding k, changes no other flag and decrements count_; when k is not
\* live it changes neither table_ nor count_.
C18_RemoveFrame ==
    [][ last'.op = "remove" =>
          /\ used' = used
          /\ mIndex' = mIndex
          /\ Len(table') = Len(table)
          /\ OccupiedSlots(table') = OccupiedSlots(table)
          /\ \A i \in OccupiedSlots(table) : table'[i + 1][1].item = table[i + 1][1].item
          /\ IF IsLive(table, last'.key)
             THEN /\ count' = count - 1
                  /\ \E S \in LiveSlots(table) :
                        /\ table[S + 1][1].item.first = last'.key
                        /\ table'[S + 1][1].deleted
                        /\ \A i \in OccupiedSlots(table) \ {S} :
                              table'[i + 1][1].deleted = table[i + 1][1].deleted
             ELSE /\ count' = count
                  /\ table' = table
      ]_vars

\* remove has tombstoned a live key in a grown table that holds other items
C18_Witness ==
    /\ last.op = "remove"
    /\ last.outcome = "removed"
    /\ mIndex >= 1
    /\ used >= 2

\* what C19 says of an insert of the pair (k, v) that finds k live: count_,
\* used_, mIndex_ and table_.size() are unchanged, the one live slot of k
\* holds v, and every slot is otherwise as it was
OverwriteFrame(k, v) ==
    /\ count' = count
    /\ used' = used
    /\ mIndex' = mIndex
    /\ Len(table') = Len(table)
    /\ \E S \in LiveSlots(table) :
          /\ table[S + 1][1].item.first = k
          /\ table' = [table EXCEPT ![S + 1][1].item.second = v]

\* C19 as stated: insert(k, v) for a key k that is live changes only the
\* value stored in k's slot.
C19_OverwriteFrame ==
    [][ (last'.op = "insert" /\ IsLive(table, last'.key)) =>
          OverwriteFrame(last'.key, last'.arg)
      ]_vars

\* C19, amended: the same for an insert whose load check does not hold,
\* (used_ + 1) / table_.size() < resizeAlpha_.
C19_OverwriteFrameNoGrowth ==
    [][ ( /\ last'.op = "insert" /\ IsLive(table, last'.key)
          /\ ~LoadReached(used + 1, Len(table)) ) =>
          OverwriteFrame(last'.key, last'.arg)
      ]_vars

\* a live key has been given another value, without growth, in a table that
\* holds another live key and a deleted slot
C19_Witness ==
    /\ last.op = "insert"
    /\ last.outcome = "ok"
    /\ ~last.grew
    /\ last.prevArg # 0
    /\ last.prevArg # last.arg
    /\ count >= 2
    /\ used > count

\* the items held by the live slots of tbl
LiveItems(tbl) == {tbl[i + 1][1].item : i \in LiveSlots(tbl)}

\* C20: growth discards tombstones.  When the resize() called by an insert
\* returns, before the inserted pair is placed, the new slot array holds
\* the items that were live in the old one and no deleted bucket, used_ is
\* count_, and mIndex_ is larger than before; mIndex_ never decreases in
\* any step.
C20_GrowthDropsTombstones ==
    [][ /\ mIndex' >= mIndex
        /\ (last'.op = "insert" /\ last'.mid # -1) =>
              LET g == resize(State).s
              IN  /\ LiveItems(g.table) = LiveItems(table)
                  /\ Cardinality(LiveSlots(g.table)) = Cardinality(LiveSlots(table))
                  /\ OccupiedSlots(g.table) = LiveSlots(g.table)
                  /\ g.used = g.count
                  /\ g.count = last'.mid
                  /\ g.mIndex > mIndex
                  /\ mIndex' >= g.mIndex
      ]_vars

\* an insert has grown a slot array that held two live items and a deleted
\* one
C20_Witness ==
    /\ last.op = "insert"
    /\ last.outcome = "ok"
    /\ last.grew
    /\ last.mid >= 2
    /\ last.dropped >= 1
    /\ used = count

----------------------------------------------------------------------------
(* The cycle insert(k, 1); remove(k), repeated for ever by a caller that   *)
(* uses one key k: size() is 0 or 1 throughout.                            *)

InitCycle ==
    \E alpha \in Alphas \cup {FullAlpha}, kind \in Kinds :
        Construct(SubSeq(CAPACITIES, 1, NumRungs), alpha, kind)

\* every item of table_, live or deleted, has the key k
OnlyKey(k) == \A i \in OccupiedSlots(table) : table[i + 1][1].item.first = k

\* the insert of the cycle: k is not in the table
CycleInsert(k) ==
    /\ OnlyKey(k)
    /\ ~IsLive(table, k)
    /\ Insert(k, 1)
    /\ UNCHANGED order

\* the remove of the cycle: k is in the table
CycleRemove(k) ==
    /\ OnlyKey(k)
    /\ IsLive(table, k)
    /\ RemoveCall(k)

NextCycle ==
    \/ \E k \in Keys : CycleInsert(k)
    \/ \E k \in Keys : CycleRemove(k)

\* the cycle has come to its end: the insert threw, and every further insert
\* of the cycle does the same and changes nothing
CycleOver == last.op = "insert" /\ last.outcome # "ok"

\* no step of the cycle changes the state once the cycle is over
CycleOverIsFinal == [][~CycleOver]_vars

\* as long as the cycle is not over a step of it changes the state: the
\* remove of the key when it is live (it sets the deleted flag), else the
\* insert of the key, which was not the call made last
CycleGoesOn ==
    ~CycleOver =>
        \E k \in Keys : OnlyKey(k) /\ (IsLive(table, k) \/ last.op # "insert")

\* the caller goes on with the cycle as long as a call changes anything:
\* weak fairness of NextCycle, WF_vars(NextCycle), written out with ~CycleOver
\* for ENABLED <<NextCycle>>_vars (they agree by CycleOverIsFinal and
\* CycleGoesOn)
CycleFair == []<>CycleOver \/ []<><<NextCycle>>_vars

SpecCycle == InitCycle /\ [][NextCycle]_vars /\ CycleFair

----------------------------------------------------------------------------

\* what C21 says of a step: used_ does not decrease in a step that leaves
\* mIndex_ as it is, and an insert of a key that is not live, made without
\* growth, adds one to used_ and leaves the deleted buckets as they are
UsedGrows ==
    /\ mIndex' = mIndex => used' >= used
    /\ ( /\ last'.op = "insert" /\ last'.outcome = "ok" /\ ~last'.grew
         /\ ~IsLive(table, last'.key) ) =>
            /\ used' = used + 1
            /\ OccupiedSlots(table) \subseteq OccupiedSlots(table')
            /\ Tombs(table') = Tombs(table)

\* an insert has called resize(): the table grew or the ladder had no rung
GrowthTriggered ==
    /\ last.op = "insert"
    /\ last.grew \/ last.outcome = "CapacityExhausted"

----------------------------------------------------------------------------
(* A DoubleHash prober set up for a capacity of the table's ladder, as     *)
(* HashTable::probe sets it up on that rung.  A slot array of such a size  *)
(* cannot be walked call by call, so the caller looks at call 0 and at one *)
(* later call of next().                                                   *)

\* the rungs of CAPACITIES used here: those on which start_ +
\* numProbes_ * dhstep_, with steps up to MaxStep, stays below 2^31, the
\* width of the integers of the model (size_t has 64 bits: nothing
\* overflows in the code on any rung)
LadderRungs ==
    {c \in 1..Len(CAPACITIES) : CAPACITIES[c] <= (2^30 \div (MaxStep + 2)) * 2}

\* a key whose Hash2 value is x
LadderKey(x) == [id |-> "L", h |-> 0, h2 |-> x]

\* the modulus DoubleHashProber::init picks for m slots
ModFor(m) == PickMod(0, m, DOUBLE_HASH_MOD_VALUES[1])

\* the prober after n calls of next() whose results are not looked at:
\* each call adds one to numProbes_ until it has reached m_
SkipCalls(p, n) ==
    [p EXCEPT !.numProbes = IF @ + n >= p.m THEN p.m ELSE @ + n]

\* the calls of next() looked at after call 0
CallIndices(m) ==
    {j \in {1, 2, m - 1, m, m + 1} \cup {m \div d : d \in 2..MaxDiv} : j >= 1}

InitLadder ==
    /\ prober = NewProber("DoubleHash")
    /\ ladder = CAPACITIES
    /\ resizeAlpha = [num |-> 2, den |-> 5]
    /\ mIndex = 0
    /\ count = 0
    /\ used = 0
    /\ table = <<>>
    /\ last = NoCall
    /\ shadow = [k \in AllKeys |-> 0]
    /\ rets = <<>>
    /\ order = <<>>
    /\ out = <<>>

\* init(start, CAPACITIES[c - 1], key) for a key that gives the step stp:
\* its Hash2 value is the modulus minus stp
LadderInit(c, start, stp) ==
    /\ last.op = "none"
    /\ stp <= ModFor(ladder[c])
    /\ prober' = DoubleHashInit(prober, start, ladder[c], LadderKey(ModFor(ladder[c]) - stp))
    /\ rets' = <<>>
    /\ last' = [NoCall EXCEPT !.op = "init", !.key = LadderKey(ModFor(ladder[c]) - stp)]
    /\ out' = <<>>
    /\ UNCHANGED <<ladder, resizeAlpha, table, mIndex, count, used, shadow, order>>

\* call 0 of next()
LadderFirst ==
    /\ last.op = "init"
    /\ LET n == ProberNext(prober)
       IN  /\ prober' = n.p
           /\ rets' = << n.loc >>
           /\ last' = [last EXCEPT !.op = "next", !.outcome = "ok", !.ret = n.loc]
    /\ out' = <<>>
    /\ UNCHANGED <<ladder, resizeAlpha, table, mIndex, count, used, shadow, order>>

\* calls 1 .. j of next(); the result of call j is looked at
LadderLater(j) ==
    /\ last.op = "next"
    /\ Len(rets) = 1
    /\ LET n == ProberNext(SkipCalls(prober, j - 1))
       IN  /\ prober' = n.p
           /\ rets' = Append(rets, n.loc)
           /\ last' = [last EXCEPT !.arg = j, !.ret = n.loc]
    /\ out' = <<>>
    /\ UNCHANGED <<ladder, resizeAlpha, table, mIndex, count, used, shadow, order>>

NextLadder ==
    \/ \E c \in LadderRungs : \E start \in {0, ladder[c] - 1}, stp \in 1..MaxStep :
          LadderInit(c, start, stp)
    \/ LadderFirst
    \/ \E j \in CallIndices(prober.m) : LadderLater(j)

SpecLadder == InitLadder /\ [][NextLadder]_vars

\* SkipCalls agrees with the calls of next() made one by one (in SpecProber,
\* where rets holds the result of every call)
SkipCallsAsNext ==
    last.op = "next" => prober = SkipCalls([prober EXCEPT !.numProbes = 0], Len(rets))

RECURSIVE GCD(_, _)
GCD(a, b) == IF b = 0 THEN a ELSE GCD(b, a % b)

\* C22: DoubleHash full coverage.  On every capacity of the ladder the step
\* chosen by init is coprime with the capacity, the first capacity calls
\* of next return different slots (call 0 and a later call never agree),
\* and the calls after them return npos.
C22_DoubleHashCoverage ==
    last.op # "none" =>
        /\ GCD(prober.dhstep, prober.m) = 1
        /\ (Len(rets) = 2 /\ last.arg < prober.m) =>
              /\ rets[1] # npos /\ rets[2] # npos
              /\ rets[1] # rets[2]
        /\ (Len(rets) = 2 /\ last.arg >= prober.m) => rets[2] = npos

\* C17: the probe of insert never gives up.  insert probes only while
\* (used_ + 1) / size is below the load factor, so the probe finds an empty
\* bucket provided its sequence visits at least load factor * size
\* different slots: when call j of next() returns the slot of call 0 again
\* (the sequence visits at most j slots), j is at least load factor * size.
C17_ProbeOutlastsLoad ==
    (Len(rets) = 2 /\ rets[2] = rets[1]) =>
        last.arg * resizeAlpha.den >= resizeAlpha.num * prober.m

====
